---------------------------- MODULE Spec2Model ----------------------------
(***************************************************************************)
(* A model of @ts-terraform/provider: the block schema translator          *)
(* (blockToSchemaType and friends), the dynamic value codec (toDynamic,    *)
(* fromDynamic, toRawState, optionalsToNulls) and the Provider facade that *)
(* sequences the tfplugin5 RPC calls.                                      *)
(*                                                                         *)
(* Three specifications share the module:                                  *)
(*   Spec       the facade after construction: one invoked operation at a  *)
(*              time, its RPC requests and the provider's responses;       *)
(*   SpecBlock  construction of the schema tables from a block schema;     *)
(*   SpecNulls  optionalsToNulls on an object type and an input object.    *)
(***************************************************************************)
EXTENDS Integers, Sequences, FiniteSets, TLC

VARIABLES
  schema,     \* the GetProviderSchema response handed to the constructor
  facade,     \* the Provider's private fields (#providerSchema, the four tables)
  pc,         \* where the invoked operation stands
  call,       \* the invoked operation and its arguments
  sent,       \* the RPC requests the invoked operation has issued, in order
  received,   \* the RPC responses it has received, in order
  outcome,    \* how the operation's promise settled
  nullsIn,    \* SpecNulls: the arguments of optionalsToNulls
  nullsOut    \* SpecNulls: its result

vars == <<schema, facade, pc, call, sent, received, outcome, nullsIn, nullsOut>>

-----------------------------------------------------------------------------
(* Bounds of the model.                                                    *)

\* attributes per top-level block
MaxAttrs == 2
\* depth of nested blocks below the top-level block
MaxDepth == 1
\* declared properties of the object type given to optionalsToNulls
MaxProps == 2
\* diagnostics in one RPC response
MaxDiagnostics == 1
\* imported resources in one ImportResourceState response
MaxImported == 1

-----------------------------------------------------------------------------
(* Optional fields of protobuf messages and of options objects: a field    *)
(* that is null or undefined is None, a field holding x is Some(x).        *)

None == <<>>
Some(x) == <<x>>
IsSome(m) == m # <<>>
Get(m) == m[1]

SeqsUpTo(S, n) == UNION {[1..k -> S] : k \in 0..n}

-----------------------------------------------------------------------------
(* JavaScript values.  Every value is a record with the same fields so     *)
(* that any two can be compared: t is the typeof-like tag, p the primitive *)
(* (as text), o the own properties of an object.                           *)

Undefined == [t |-> "undefined", p |-> "", o |-> <<>>]
Null      == [t |-> "null", p |-> "", o |-> <<>>]
Num(n)    == [t |-> "number", p |-> n, o |-> <<>>]
Bool(b)   == [t |-> "boolean", p |-> b, o |-> <<>>]
Str(s)    == [t |-> "string", p |-> s, o |-> <<>>]
Obj(f)    == [t |-> "object", p |-> "", o |-> f]
Fn(name)  == [t |-> "function", p |-> name, o |-> <<>>]
EmptyObj  == Obj(<<>>)

\* x == null
IsNullish(v) == v.t \in {"undefined", "null"}

\* !x
Falsy(v) ==
  \/ IsNullish(v)
  \/ v = Num("0")
  \/ v = Bool("false")
  \/ v = Str("")

\* a ?? b
Coalesce(a, b) == IF IsNullish(a) THEN b ELSE a

\* The properties every plain object ({}) inherits from Object.prototype;
\* "constructor" stands for all of them (toString, valueOf, hasOwnProperty...).
ObjectPrototype == [constructor |-> Fn("Object")]

\* obj[key] on a plain object: the own property, else the inherited one,
\* else undefined.
GetProp(props, key) ==
  IF key \in DOMAIN props THEN props[key]
  ELSE IF key \in DOMAIN ObjectPrototype THEN ObjectPrototype[key]
  ELSE Undefined

-----------------------------------------------------------------------------
(* The schema type system (T.boolean, T.array, ..., validateOrThrow).      *)
(* A thrown error is a record of kind "throw", so that a translation is    *)
(* either a type or the error it threw.                                    *)

Throw(name, msg) == [kind |-> "throw", name |-> name, message |-> msg]
IsThrow(x) == "kind" \in DOMAIN x /\ x.kind = "throw"

T_boolean == [kind |-> "boolean"]
T_number == [kind |-> "number"]
T_string == [kind |-> "string"]
T_array(e) == [kind |-> "array", element |-> e]
T_map(e) == [kind |-> "map", element |-> e]
T_object(props) == [kind |-> "object", properties |-> props]
T_optional(inner) == [kind |-> "optional", inner |-> inner]

IsOptional(ty) == ty.kind = "optional"
\* the type under an Optional wrapper, if there is one
Unwrapped(ty) == IF IsOptional(ty) THEN ty.inner ELSE ty

\* The first thrown error among the values of a function, if any; the order
\* in which the keys are visited does not matter to what the claims read.
FirstThrow(f) ==
  IF \E k \in DOMAIN f : IsThrow(f[k])
  THEN Some(f[CHOOSE k \in DOMAIN f : IsThrow(f[k])])
  ELSE None

-----------------------------------------------------------------------------
(* The wire type decoder.  A CtyTypeSchema is an atom [tag |-> "bool"] or  *)
(* a tagged pair [tag |-> "list", payload |-> ...]; attribute.type holds   *)
(* its JSON text, modelled as [json |-> descriptor].                       *)

Cty(tag) == [tag |-> tag]
CtyOf(tag, payload) == [tag |-> tag, payload |-> payload]

RECURSIVE ctyToType(_)
ctyToType(s) ==
  CASE s.tag = "any" -> Throw("Error", "unknown type")
    [] s.tag = "bool" -> T_boolean
    [] s.tag = "number" -> T_number
    [] s.tag = "string" -> T_string
    [] s.tag = "list" ->
         LET e == ctyToType(s.payload) IN IF IsThrow(e) THEN e ELSE T_array(e)
    [] s.tag = "map" ->
         LET e == ctyToType(s.payload) IN IF IsThrow(e) THEN e ELSE T_map(e)
    [] s.tag = "set" ->
         LET e == ctyToType(s.payload) IN IF IsThrow(e) THEN e ELSE T_array(e)
    [] s.tag = "object" ->
         LET innerTypes == [key \in DOMAIN s.payload |-> ctyToType(s.payload[key])]
         IN  IF IsSome(FirstThrow(innerTypes))
             THEN Get(FirstThrow(innerTypes))
             ELSE T_object(innerTypes)
    [] OTHER -> Throw("Error", "Unknown type")

decodeCtyType(input) == ctyToType(input.json)

-----------------------------------------------------------------------------
(* The block schema translator.                                            *)

\* attrs[name] = ty
Put(attrs, name, ty) ==
  [k \in DOMAIN attrs \cup {name} |-> IF k = name THEN ty ELSE attrs[k]]

\* A translator that applies the ARGS rule to both kinds.
AttributeIsOptional_SameRule(attribute, kind) ==
  attribute.optional \/ attribute.computed

\* The condition under which an attribute's type is wrapped in T.optional.
AttributeIsOptional(attribute, kind) ==
  IF kind = "ATTRS"
  THEN ~attribute.required /\ ~attribute.computed
  ELSE attribute.optional \/ attribute.computed

\* The condition under which a nested block's type is NOT wrapped in T.optional.
NestedBlockIsRequired(nestedBlock) ==
  /\ IsSome(nestedBlock.minItems)
  /\ Get(nestedBlock.minItems) > 0
  /\ nestedBlock.nesting # "GROUP"

\* A switch that forgets the maxItems === 1 collapse of LIST.
WrapByNesting_NoCollapse(nestedBlock, innerSchema) ==
  CASE nestedBlock.nesting = "SINGLE" -> innerSchema
    [] nestedBlock.nesting = "LIST" -> T_array(innerSchema)
    [] nestedBlock.nesting = "SET" ->
         IF nestedBlock.maxItems = Some(1) THEN innerSchema ELSE T_array(innerSchema)
    [] nestedBlock.nesting = "MAP" -> T_map(innerSchema)
    [] nestedBlock.nesting = "GROUP" -> innerSchema
    [] OTHER -> Throw("Error", "Invalid nesting mode")

\* The switch on nestedBlock.nesting, given the translated inner block.
WrapByNesting(nestedBlock, innerSchema) ==
  CASE nestedBlock.nesting = "SINGLE" -> innerSchema
    [] nestedBlock.nesting = "LIST" ->
         IF nestedBlock.maxItems = Some(1) THEN innerSchema ELSE T_array(innerSchema)
    [] nestedBlock.nesting = "SET" ->
         IF nestedBlock.maxItems = Some(1) THEN innerSchema ELSE T_array(innerSchema)
    [] nestedBlock.nesting = "MAP" -> T_map(innerSchema)
    [] nestedBlock.nesting = "GROUP" -> innerSchema
    [] OTHER -> Throw("Error", "Invalid nesting mode")

RECURSIVE blockToSchemaType(_, _)
RECURSIVE nestedBlockToSchemaType(_, _)
RECURSIVE AttributesLoop(_, _, _, _)
RECURSIVE BlockTypesLoop(_, _, _, _)

nestedBlockToSchemaType(nestedBlock, kind) ==
  IF ~IsSome(nestedBlock.block)
  THEN Throw("Error", "Unable to read nested block schema")
  ELSE LET innerSchema == blockToSchemaType(Get(nestedBlock.block), kind)
       IN  IF IsThrow(innerSchema) THEN innerSchema
           ELSE WrapByNesting(nestedBlock, innerSchema)

\* for (const attribute of schemaAttributes): the object built so far, or
\* the error thrown.
AttributesLoop(schemaAttributes, i, kind, attrs) ==
  IF i > Len(schemaAttributes) THEN T_object(attrs)
  ELSE LET attribute == schemaAttributes[i] IN
    IF ~IsSome(attribute.type) THEN Throw("Error", "Unable to read attribute type")
    ELSE IF ~IsSome(attribute.name) THEN Throw("Error", "Unable to read attribute name")
    ELSE LET decoded == decodeCtyType(Get(attribute.type)) IN
      IF IsThrow(decoded) THEN decoded
      ELSE AttributesLoop(schemaAttributes, i + 1, kind,
             Put(attrs, Get(attribute.name),
                 IF AttributeIsOptional(attribute, kind)
                 THEN T_optional(decoded) ELSE decoded))

\* for (const nestedBlock of schemaBlocks)
BlockTypesLoop(schemaBlocks, i, kind, attrs) ==
  IF i > Len(schemaBlocks) THEN T_object(attrs)
  ELSE LET nestedBlock == schemaBlocks[i] IN
    IF ~IsSome(nestedBlock.typeName)
    THEN Throw("Error", "Unable to read nested block name")
    ELSE LET translated == nestedBlockToSchemaType(nestedBlock, kind) IN
      IF IsThrow(translated) THEN translated
      ELSE BlockTypesLoop(schemaBlocks, i + 1, kind,
             Put(attrs, Get(nestedBlock.typeName),
                 IF NestedBlockIsRequired(nestedBlock)
                 THEN translated ELSE T_optional(translated)))

\* Whether the nested blocks of a block are translated at all.
IncludesNestedBlocks(kind) == kind = "ARGS"

blockToSchemaType(block, kind) ==
  LET withAttributes == AttributesLoop(block.attributes, 1, kind, <<>>) IN
    IF IsThrow(withAttributes) THEN withAttributes
    ELSE IF IncludesNestedBlocks(kind)
    THEN BlockTypesLoop(block.blockTypes, 1, kind, withAttributes.properties)
    ELSE withAttributes

tfSchemaToSchemaType(sch, kind) ==
  IF ~IsSome(sch.block)
  THEN Throw("TypeError", "Could not read schema")
  ELSE blockToSchemaType(Get(sch.block), kind)

\* The record of translated schemas, or the first error thrown.
tfSchemasRecordToSchemaTypeRecord(schemas, kind) ==
  LET map == [name \in DOMAIN schemas |-> tfSchemaToSchemaType(schemas[name], kind)]
  IN  IF IsSome(FirstThrow(map)) THEN Get(FirstThrow(map))
      ELSE [kind |-> "record", entries |-> map]

\* new Provider({rpc, subprocess, schema}): the private fields, or the error.
Constructor(sch) ==
  IF ~IsSome(sch.provider) \/ ~IsSome(Get(sch.provider).block)
  THEN Throw("Error", "Unable to read provider schema")
  ELSE LET providerSchema == tfSchemaToSchemaType(Get(sch.provider), "ARGS")
           dataSourceSchemas ==
             tfSchemasRecordToSchemaTypeRecord(sch.dataSourceSchemas, "ARGS")
           resourceSchemas ==
             tfSchemasRecordToSchemaTypeRecord(sch.resourceSchemas, "ARGS")
           dataSourceStateSchemas ==
             tfSchemasRecordToSchemaTypeRecord(sch.dataSourceSchemas, "ATTRS")
           resourceStateSchemas ==
             tfSchemasRecordToSchemaTypeRecord(sch.resourceSchemas, "ATTRS")
       IN  IF IsThrow(providerSchema) THEN providerSchema
           ELSE IF IsThrow(dataSourceSchemas) THEN dataSourceSchemas
           ELSE IF IsThrow(resourceSchemas) THEN resourceSchemas
           ELSE IF IsThrow(dataSourceStateSchemas) THEN dataSourceStateSchemas
           ELSE IF IsThrow(resourceStateSchemas) THEN resourceStateSchemas
           ELSE [kind |-> "provider",
                 providerSchema |-> providerSchema,
                 dataSourceSchemas |-> dataSourceSchemas.entries,
                 resourceSchemas |-> resourceSchemas.entries,
                 dataSourceStateSchemas |-> dataSourceStateSchemas.entries,
                 resourceStateSchemas |-> resourceStateSchemas.entries]

-----------------------------------------------------------------------------
(* The block schemas the constructor is given in SpecBlock.                *)

NestingModes == {"INVALID", "SINGLE", "LIST", "SET", "MAP", "GROUP"}

Attribute(name, type, required, optional, computed) ==
  [name |-> name, type |-> type,
   required |-> required, optional |-> optional, computed |-> computed]

AttrTypes == {Cty("string"), CtyOf("list", Cty("number")),
              CtyOf("object", [x |-> Cty("bool")])}

Attributes ==
  {Attribute(Some(n), Some([json |-> Cty("string")]), r, o, c) :
     n \in {"a", "b"}, r \in BOOLEAN, o \in BOOLEAN, c \in BOOLEAN}
  \cup {Attribute(Some("a"), Some([json |-> ty]), FALSE, TRUE, TRUE) :
          ty \in AttrTypes \ {Cty("string")}}
  \cup {Attribute(Some("a"), Some([json |-> CtyOf("map", Cty("any"))]),
                  TRUE, FALSE, FALSE),
        Attribute(Some("a"), Some([json |-> CtyOf("tuple", Cty("bool"))]),
                  TRUE, FALSE, FALSE),
        Attribute(Some("a"), None, TRUE, FALSE, FALSE),
        Attribute(None, Some([json |-> Cty("string")]), TRUE, FALSE, FALSE)}

\* the attribute lists of the blocks below the top level
InnerAttrLists ==
  {<<>>, <<Attribute(Some("x"), Some([json |-> Cty("string")]), TRUE, FALSE, FALSE)>>}

NestedBlock(typeName, nesting, minItems, maxItems, block) ==
  [typeName |-> typeName, nesting |-> nesting,
   minItems |-> minItems, maxItems |-> maxItems, block |-> block]

EmptyBlock == [attributes |-> <<>>, blockTypes |-> <<>>]

RECURSIVE InnerBlocks(_)
RECURSIVE NestedBlocks(_, _)

\* the nested blocks named in names whose inner block nests d levels more
NestedBlocks(d, names) ==
  {NestedBlock(Some(n), nesting, minItems, maxItems, Some(b)) :
     n \in names, nesting \in NestingModes,
     minItems \in {None, Some(1)},
     maxItems \in {None, Some(1), Some(2)},
     b \in InnerBlocks(d)}
  \cup {NestedBlock(Some("n"), "LIST", Some(0), Some(0), Some(EmptyBlock)),
        NestedBlock(Some("n"), "LIST", None, None, None),
        NestedBlock(None, "LIST", None, None, Some(EmptyBlock))}

InnerBlocks(d) ==
  {[attributes |-> as, blockTypes |-> bts] :
     as \in InnerAttrLists,
     bts \in {<<>>} \cup (IF d = 0 THEN {} ELSE {<<nb>> : nb \in NestedBlocks(d - 1, {"n"})})}

\* a second nested block beside the first
SecondBlocks ==
  {NestedBlock(Some(n), nesting, Some(1), None, Some(EmptyBlock)) :
     n \in {"n", "m"}, nesting \in {"LIST", "MAP"}}

TopBlocks ==
  {[attributes |-> as, blockTypes |-> <<>>] : as \in SeqsUpTo(Attributes, MaxAttrs)}
  \cup {[attributes |-> as, blockTypes |-> <<nb>>] :
          as \in InnerAttrLists, nb \in NestedBlocks(MaxDepth - 1, {"n"})}
  \cup {[attributes |-> as, blockTypes |-> <<nb>>] :
          as \in InnerAttrLists \ {<<>>}, nb \in NestedBlocks(0, {"x"})}
  \cup {[attributes |-> <<>>, blockTypes |-> <<nb1, nb2>>] :
          nb1 \in NestedBlocks(0, {"n"}), nb2 \in SecondBlocks}

\* the GetProviderSchema response whose one resource, "widget", has block b
SchemaOfBlock(b) ==
  [provider |-> Some([block |-> Some(EmptyBlock)]),
   dataSourceSchemas |-> <<>>,
   resourceSchemas |-> [widget |-> [block |-> Some(b)]]]

BlockSchemas ==
  {SchemaOfBlock(b) : b \in TopBlocks}
  \cup {[provider |-> None, dataSourceSchemas |-> <<>>, resourceSchemas |-> <<>>],
        [provider |-> Some([block |-> None]), dataSourceSchemas |-> <<>>,
         resourceSchemas |-> <<>>],
        [provider |-> Some([block |-> Some(EmptyBlock)]), dataSourceSchemas |-> <<>>,
         resourceSchemas |-> [widget |-> [block |-> None]]]}

-----------------------------------------------------------------------------
(* What the variables hold while no operation is invoked.                  *)

NotConstructed == [kind |-> "none"]
NoCall == [op |-> "none"]
NoOutcome == [status |-> "pending"]
NoNulls == [kind |-> "none"]

FacadeIdle ==
  /\ pc = "idle"
  /\ call = NoCall
  /\ sent = <<>>
  /\ received = <<>>
  /\ outcome = NoOutcome

-----------------------------------------------------------------------------
(* SpecBlock: the constructor builds the schema tables.                    *)

InitBlock ==
  /\ schema \in BlockSchemas
  /\ facade = NotConstructed
  /\ FacadeIdle
  /\ nullsIn = NoNulls
  /\ nullsOut = NoNulls

Construct ==
  /\ facade = NotConstructed
  /\ facade' = Constructor(schema)
  /\ UNCHANGED <<schema, pc, call, sent, received, outcome, nullsIn, nullsOut>>

NextBlock == Construct

SpecBlock == InitBlock /\ [][NextBlock]_vars

-----------------------------------------------------------------------------
(* Well-formed blocks, and what the claims about the translator read.      *)

RECURSIVE CtyWellFormed(_)
CtyWellFormed(s) ==
  CASE s.tag \in {"bool", "number", "string"} -> TRUE
    [] s.tag \in {"list", "set", "map"} -> CtyWellFormed(s.payload)
    [] s.tag = "object" -> \A key \in DOMAIN s.payload : CtyWellFormed(s.payload[key])
    [] OTHER -> FALSE

SeqRange(q) == {q[i] : i \in DOMAIN q}

AttributeNames(b) ==
  {Get(attribute.name) : attribute \in {a \in SeqRange(b.attributes) : IsSome(a.name)}}
NestedBlockNames(b) ==
  {Get(nb.typeName) : nb \in {n \in SeqRange(b.blockTypes) : IsSome(n.typeName)}}

\* Every attribute has a name and a decodable type, every nested block has a
\* name, a valid nesting mode and a well-formed inner block, and no name is
\* used twice.
RECURSIVE WellFormedBlock(_)
WellFormedBlock(b) ==
  /\ \A attribute \in SeqRange(b.attributes) :
       /\ IsSome(attribute.name)
       /\ IsSome(attribute.type)
       /\ CtyWellFormed(Get(attribute.type).json)
  /\ \A nb \in SeqRange(b.blockTypes) :
       /\ IsSome(nb.typeName)
       /\ nb.nesting \in NestingModes \ {"INVALID"}
       /\ IsSome(nb.block)
       /\ WellFormedBlock(Get(nb.block))
  /\ Cardinality(AttributeNames(b) \cup NestedBlockNames(b))
       = Len(b.attributes) + Len(b.blockTypes)

\* In SpecBlock: the constructor has run on a well-formed "widget" block.
WidgetBlock == Get(schema.resourceSchemas.widget.block)
BlockConstructed ==
  /\ facade # NotConstructed
  /\ "widget" \in DOMAIN schema.resourceSchemas
  /\ IsSome(schema.resourceSchemas.widget.block)
  /\ WellFormedBlock(WidgetBlock)
WidgetArgs == facade.resourceSchemas.widget
WidgetAttrs == facade.resourceStateSchemas.widget

\* C5 as claimed: on a well-formed block, every attribute whose computed
\* flag is set is wrapped in Optional both in the ARGS and in the ATTRS
\* translation.
C5_ComputedOptionalInBothKinds ==
  BlockConstructed =>
    /\ facade.kind = "provider"
    /\ \A attribute \in SeqRange(WidgetBlock.attributes) :
         attribute.computed =>
           /\ IsOptional(WidgetArgs.properties[Get(attribute.name)])
           /\ IsOptional(WidgetAttrs.properties[Get(attribute.name)])

\* C5 as amended: on a well-formed block, every attribute whose computed
\* flag is set is wrapped in Optional in the ARGS translation and is not
\* wrapped in Optional in the ATTRS translation, whatever its required and
\* optional flags.
C5_ComputedOptionalInArgsOnly ==
  BlockConstructed =>
    /\ facade.kind = "provider"
    /\ \A attribute \in SeqRange(WidgetBlock.attributes) :
         attribute.computed =>
           /\ IsOptional(WidgetArgs.properties[Get(attribute.name)])
           /\ ~IsOptional(WidgetAttrs.properties[Get(attribute.name)])

C5_Witness ==
  /\ BlockConstructed
  /\ facade.kind = "provider"
  /\ \E attribute \in SeqRange(WidgetBlock.attributes) :
       /\ attribute.computed /\ attribute.required /\ ~attribute.optional
       /\ IsOptional(WidgetArgs.properties[Get(attribute.name)])
       /\ ~IsOptional(WidgetAttrs.properties[Get(attribute.name)])
  /\ \E attribute \in SeqRange(WidgetBlock.attributes) :
       attribute.computed /\ attribute.optional /\ ~attribute.required

\* What the claim says a nested block's type is, under any Optional wrapper.
ExpectedNestedType(nb, innerObject) ==
  CASE nb.nesting \in {"SINGLE", "GROUP"} -> innerObject
    [] nb.nesting = "MAP" -> T_map(innerObject)
    [] nb.nesting \in {"LIST", "SET"} ->
         IF nb.maxItems = Some(1) THEN innerObject ELSE T_array(innerObject)

\* The two translations args and attrs of block b are as C6 says, and so are
\* the translations of every block nested in b.
RECURSIVE NestedBlocksAsClaimed(_, _, _)
NestedBlocksAsClaimed(b, args, attrs) ==
  /\ args.kind = "object"
  /\ attrs.kind = "object"
  /\ DOMAIN attrs.properties = AttributeNames(b)
  /\ DOMAIN args.properties = AttributeNames(b) \cup NestedBlockNames(b)
  /\ \A nb \in SeqRange(b.blockTypes) :
       LET inner == Get(nb.block)
           innerArgs == blockToSchemaType(inner, "ARGS")
           innerAttrs == blockToSchemaType(inner, "ATTRS")
       IN  /\ Unwrapped(args.properties[Get(nb.typeName)])
                = ExpectedNestedType(nb, innerArgs)
           /\ NestedBlocksAsClaimed(inner, innerArgs, innerAttrs)

\* C6: on a well-formed block the ATTRS translation has exactly the
\* attribute names as properties (no nested block at any depth), and the
\* ARGS translation has besides one property per nested block, whose type
\* under any Optional wrapper is the translated inner object, bare for
\* SINGLE and GROUP, a Map for MAP, and for LIST and SET bare when
\* maxItems = 1 and an Array otherwise.
C6_NestedBlocksOnlyInArgs ==
  BlockConstructed =>
    /\ facade.kind = "provider"
    /\ NestedBlocksAsClaimed(WidgetBlock, WidgetArgs, WidgetAttrs)

C6_Witness ==
  /\ BlockConstructed
  /\ facade.kind = "provider"
  /\ \E nb \in SeqRange(WidgetBlock.blockTypes) :
       /\ nb.nesting = "LIST"
       /\ nb.maxItems = Some(1)
       /\ Len(Get(nb.block).attributes) = 1
       /\ WidgetArgs.properties[Get(nb.typeName)]
            = T_optional(T_object([x |-> T_string]))
       /\ Get(nb.typeName) \notin DOMAIN WidgetAttrs.properties
  /\ Len(WidgetBlock.attributes) = 1

\* C8 as claimed: on a well-formed block, an attribute with none of the
\* required, optional and computed flags set is not wrapped in Optional in
\* the ATTRS translation.
C8_NoFlagsRequiredInAttrs ==
  BlockConstructed =>
    /\ facade.kind = "provider"
    /\ \A attribute \in SeqRange(WidgetBlock.attributes) :
         (~attribute.required /\ ~attribute.optional /\ ~attribute.computed) =>
           ~IsOptional(WidgetAttrs.properties[Get(attribute.name)])

-----------------------------------------------------------------------------
(* The dynamic value codec.                                                *)

\* optionalsToNulls written with || in place of ??.
optionalsToNulls_Or(value, sch) ==
  Obj([key \in DOMAIN sch.properties |->
         IF Falsy(GetProp(value.o, key)) THEN Null ELSE GetProp(value.o, key)])

\* Object.keys(schema.properties).reduce((obj, key) => obj[key] = value[key] ?? null)
optionalsToNulls(value, sch) ==
  Obj([key \in DOMAIN sch.properties |-> Coalesce(GetProp(value.o, key), Null)])

\* Byte arrays, by what they encode: msgpack.pack(value), or the UTF-8
\* bytes of a text (encoder.encode(text)).  The empty array is Utf8("").
Utf8(text) == [t |-> "bytes", enc |-> "utf8", text |-> text]
EmptyBytes == Utf8("")

\* msgpack has no undefined: it is packed as nil, at the top and under keys.
NilForUndefined(v) ==
  IF v = Undefined THEN Null
  ELSE IF v.t = "object"
  THEN Obj([k \in DOMAIN v.o |-> IF v.o[k] = Undefined THEN Null ELSE v.o[k]])
  ELSE v
MsgpackPack(value) == [t |-> "bytes", enc |-> "msgpack", value |-> NilForUndefined(value)]
MsgpackUnpack(bytes) == bytes.value

DynamicValue(msgpack) == [t |-> "DynamicValue", msgpack |-> msgpack]

toDynamic(value) == DynamicValue(MsgpackPack(value))

fromDynamic(value) ==
  IF Falsy(value) THEN value
  ELSE IF Falsy(value.msgpack) THEN value.msgpack
  ELSE MsgpackUnpack(value.msgpack)

\* JSON.stringify on null, primitives and objects of primitives.
JSONscalar(v) ==
  CASE v.t = "null" -> "null"
    [] v.t = "string" -> "\"" \o v.p \o "\""
    [] OTHER -> v.p
RECURSIVE JSONmembers(_, _)
JSONmembers(o, keys) ==
  IF keys = {} THEN ""
  ELSE LET k == CHOOSE x \in keys : TRUE
           rest == keys \ {k}
       IN  "\"" \o k \o "\":" \o JSONscalar(o[k])
             \o (IF rest = {} THEN "" ELSE ",") \o JSONmembers(o, rest)
JSONstringify(v) ==
  IF v.t = "object"
  THEN "{" \o JSONmembers(v.o, {k \in DOMAIN v.o : v.o[k] # Undefined}) \o "}"
  ELSE JSONscalar(v)

\* The documents JSON.parse is given in this model.
PrivateObjects == {EmptyObj, Obj([tag |-> Str("x")])}
RawStates == {Obj([id |-> Str("1")]), Obj([id |-> Str("1"), name |-> Str("w")])}
JSONDocuments == {Null} \cup PrivateObjects \cup RawStates

\* JSON.parse: the document with this text; a SyntaxError for any other
\* text, the empty text among them.
JSONparse(text) ==
  IF \E d \in JSONDocuments : JSONstringify(d) = text
  THEN CHOOSE d \in JSONDocuments : JSONstringify(d) = text
  ELSE Throw("SyntaxError", "Unexpected end of JSON input")

\* decoder.decode(bytes): decode() and decode(undefined) give the empty text.
TextDecode(bytes) == IF bytes = Undefined THEN "" ELSE bytes.text
\* encoder.encode(text)
TextEncode(text) == Utf8(text)

toRawState(value) == [t |-> "RawState", json |-> TextEncode(JSONstringify(value))]

\* JSON.parse(decoder.decode(bytes)) ?? {}: the mapping, or the error thrown.
ParsePrivate(bytes) ==
  LET parsed == JSONparse(TextDecode(bytes))
  IN  IF IsThrow(parsed) THEN parsed ELSE Coalesce(parsed, EmptyObj)

\* options.private ? encoder.encode(JSON.stringify(options.private)) : (no field)
EncodePrivate(options) ==
  IF Falsy(options.private) THEN Undefined
  ELSE TextEncode(JSONstringify(options.private))

-----------------------------------------------------------------------------
(* throwDiagnosticErrors and validateOrThrow.                              *)

\* Passes a response through unless its diagnostics list is non-empty, and
\* then throws a DiagnosticError carrying the list.
throwDiagnosticErrors(res) ==
  IF Len(res.diagnostics) > 0
  THEN [kind |-> "throw", name |-> "DiagnosticError",
        message |-> res.diagnostics[1].summary, diagnostics |-> res.diagnostics]
  ELSE res

\* Whether value has the shape of type ty (4.1): optional properties are
\* skipped when absent or null, every other property must be present.
RECURSIVE Conforms(_, _)
Conforms(ty, value) ==
  CASE ty.kind = "boolean" -> value.t = "boolean"
    [] ty.kind = "number" -> value.t = "number"
    [] ty.kind = "string" -> value.t = "string"
    [] ty.kind = "array" ->
         value.t = "array" /\ \A k \in DOMAIN value.o : Conforms(ty.element, value.o[k])
    [] ty.kind = "map" ->
         value.t = "object" /\ \A k \in DOMAIN value.o : Conforms(ty.element, value.o[k])
    [] ty.kind = "optional" -> IsNullish(value) \/ Conforms(ty.inner, value)
    [] ty.kind = "object" ->
         /\ value.t = "object"
         /\ \A k \in DOMAIN ty.properties :
              Conforms(ty.properties[k],
                       IF k \in DOMAIN value.o THEN value.o[k] ELSE Undefined)
    [] OTHER -> FALSE

\* None when the value validates, Some(error) when validateOrThrow throws.
validateOrThrow(ty, value) ==
  IF Conforms(ty, value) THEN None
  ELSE Some(Throw("ValidationError", "value does not match the schema"))

-----------------------------------------------------------------------------
(* SpecNulls: optionalsToNulls on an object type and an input object.      *)

PropNames == {"a", "b", "constructor"}
InputKeys == {"a", "b", "extra"}
InputValues == {Undefined, Null, Num("0"), Num("1"), Bool("false"), Str(""), Str("x")}

ObjectTypes ==
  UNION {[names -> {T_string, T_optional(T_string)}] :
           names \in {ns \in SUBSET PropNames : Cardinality(ns) <= MaxProps}}

InputObjects ==
  UNION {[keys -> InputValues] : keys \in SUBSET InputKeys}

InitNulls ==
  /\ nullsIn \in {[kind |-> "args", value |-> Obj(o), schema |-> T_object(props)] :
                    o \in InputObjects, props \in ObjectTypes}
  /\ nullsOut = NoNulls
  /\ schema = NotConstructed
  /\ facade = NotConstructed
  /\ FacadeIdle

ApplyOptionalsToNulls ==
  /\ nullsIn # NoNulls
  /\ nullsOut = NoNulls
  /\ nullsOut' = optionalsToNulls(nullsIn.value, nullsIn.schema)
  /\ UNCHANGED <<schema, facade, pc, call, sent, received, outcome, nullsIn>>

NextNulls == ApplyOptionalsToNulls

SpecNulls == InitNulls /\ [][NextNulls]_vars

-----------------------------------------------------------------------------
(* The facade after construction (Spec): the schema it was built from, the *)
(* arguments its operations are invoked with, and the provider's answers.  *)

StringAttribute(name, required, optional, computed) ==
  Attribute(Some(name), Some([json |-> Cty("string")]), required, optional, computed)

FacadeSchema ==
  [provider |-> Some([block |-> Some(
     [attributes |-> <<StringAttribute("name", TRUE, FALSE, FALSE),
                       StringAttribute("region", FALSE, TRUE, FALSE)>>,
      blockTypes |-> <<>>])]),
   dataSourceSchemas |-> [lookup |-> [block |-> Some(
     [attributes |-> <<StringAttribute("key", TRUE, FALSE, FALSE),
                       StringAttribute("filter", FALSE, TRUE, FALSE)>>,
      blockTypes |-> <<>>])]],
   resourceSchemas |-> [widget |-> [block |-> Some(
     [attributes |-> <<StringAttribute("id", FALSE, FALSE, TRUE),
                       StringAttribute("name", TRUE, FALSE, FALSE)>>,
      blockTypes |-> <<>>])]]]

TypeNames == {"widget", "lookup", "unknown_type", "constructor"}

Configs ==
  {EmptyObj,
   Obj([name |-> Str("x")]),
   Obj([name |-> Str("x"), region |-> Null]),
   Obj([name |-> Str("x"), extra |-> Str("e")]),
   Obj([name |-> Num("1")]),
   Obj([key |-> Str("k")]),
   Obj([key |-> Str("k"), filter |-> Str("f")])}

States ==
  {Null, Obj([name |-> Str("w")]), Obj([id |-> Str("1"), name |-> Str("w")])}

PrivateOptions == {[private |-> p] : p \in {Undefined} \cup PrivateObjects}

Diagnostics ==
  {[severity |-> "ERROR", summary |-> "boom"],
   [severity |-> "WARNING", summary |-> "careful"]}
DiagnosticLists == SeqsUpTo(Diagnostics, MaxDiagnostics)

\* a DynamicValue field of a response: absent, without payload, packed null,
\* or a packed state
StateFields ==
  {Undefined, Null, DynamicValue(Undefined), DynamicValue(MsgpackPack(Null)),
   DynamicValue(MsgpackPack(Obj([id |-> Str("1"), name |-> Str("w")])))}

\* a private bytes field of a response: absent, empty, or a JSON text
PrivateFields ==
  {Undefined, EmptyBytes, Utf8("null"), Utf8(JSONstringify(Obj([tag |-> Str("x")])))}

Response(fields, diagnostics) ==
  [kind |-> "response", diagnostics |-> diagnostics, fields |-> fields]

GetSchemaResponses ==
  {Response([provider |-> "schema"], d) : d \in DiagnosticLists}
PrepareResponses ==
  {Response([preparedConfig |-> c], d) :
     c \in {Undefined, Null,
            DynamicValue(MsgpackPack(Obj([name |-> Str("x"), region |-> Str("default")])))},
     d \in DiagnosticLists}
ConfigureResponses == {Response(<<>>, d) : d \in DiagnosticLists}
ValidateResponses == {Response(<<>>, d) : d \in DiagnosticLists}
PlanResponses ==
  {Response([plannedState |-> st, plannedPrivate |-> pr, requiresReplace |-> rr], d) :
     st \in StateFields, pr \in PrivateFields, rr \in {<<>>, <<"name">>},
     d \in DiagnosticLists}
ApplyResponses ==
  {Response([newState |-> st, private |-> pr], d) :
     st \in StateFields, pr \in PrivateFields, d \in DiagnosticLists}
ReadResourceResponses ==
  {Response([newState |-> st], d) :
     st \in StateFields \cup {DynamicValue(MsgpackPack(Num("0")))}, d \in DiagnosticLists}
ReadDataSourceResponses ==
  {Response([state |-> st], d) : st \in StateFields, d \in DiagnosticLists}
UpgradeResponses ==
  {Response([upgradedState |-> st], d) : st \in StateFields, d \in DiagnosticLists}
ImportedResources ==
  {[typeName |-> tn, state |-> st, private |-> pr] :
     tn \in {Null, Str("widget")},
     st \in {Undefined, DynamicValue(MsgpackPack(Null)),
             DynamicValue(MsgpackPack(Obj([id |-> Str("1"), name |-> Str("w")])))},
     pr \in {Null} \cup PrivateFields}
ImportResponses ==
  {Response([importedResources |-> rs], d) :
     rs \in SeqsUpTo(ImportedResources, MaxImported), d \in DiagnosticLists}

\* this.#rpc.method(request)
Rpc(method, request) == [kind |-> "rpc", method |-> method, request |-> request]

Resolved(value) == [status |-> "resolved", value |-> value]
Rejected(error) == [status |-> "rejected", error |-> error]

-----------------------------------------------------------------------------
(* The operations of the facade.  X_Call is the part of operation X that   *)
(* runs before its await: the error it throws, or the RPC it issues.       *)
(* X_Then is the part that runs on the response: how the promise settles.  *)

getSchema_Call == Rpc("GetSchema", <<>>)

getSchema_Then(res) ==
  LET checked == throwDiagnosticErrors(res)
  IN  IF IsThrow(checked) THEN Rejected(checked) ELSE Resolved(res)

applyResourceChange_Call(typeName, priorState, plannedState, options) ==
  Rpc("ApplyResourceChange",
      [typeName |-> typeName,
       priorState |-> toDynamic(priorState),
       plannedState |-> toDynamic(plannedState),
       priorPrivate |-> EncodePrivate(options)])

applyResourceChange_Then(res) ==
  LET checked == throwDiagnosticErrors(res)
      newState == fromDynamic(res.fields.newState)
      private == ParsePrivate(res.fields.private)
  IN  IF IsThrow(checked) THEN Rejected(checked)
      ELSE IF Falsy(newState)
      THEN Rejected(Throw("Error", "Unable to read planned state"))
      ELSE IF IsThrow(private) THEN Rejected(private)
      ELSE Resolved([newState |-> newState, private |-> private])

configure_Call(config) ==
  LET invalid == validateOrThrow(facade.providerSchema, config)
  IN  IF IsSome(invalid) THEN Get(invalid)
      ELSE Rpc("PrepareProviderConfig",
               [config |-> toDynamic(optionalsToNulls(config, facade.providerSchema))])

\* configure without the if (!preparedConfig) check.
configure_Prepared_Unchecked(res) ==
  LET checked == throwDiagnosticErrors(res)
  IN  IF IsThrow(checked) THEN checked
      ELSE Rpc("Configure", [config |-> res.fields.preparedConfig])

\* after the PrepareProviderConfig response: the error thrown, or the
\* Configure call
configure_Prepared(res) ==
  LET checked == throwDiagnosticErrors(res)
      preparedConfig == res.fields.preparedConfig
  IN  IF IsThrow(checked) THEN checked
      ELSE IF Falsy(preparedConfig)
      THEN Throw("Error", "Unable to prepare provider config")
      ELSE Rpc("Configure", [config |-> preparedConfig])

\* configure without .then(throwDiagnosticErrors) on the Configure call.
configure_Then_Unchecked(res) == Resolved(res)

configure_Then(res) ==
  LET checked == throwDiagnosticErrors(res)
  IN  IF IsThrow(checked) THEN Rejected(checked) ELSE Resolved(res)

\* importedResources.map(...): the mapped record, or the error thrown
ImportedResourceRecord(importedResource) ==
  LET state == fromDynamic(importedResource.state)
      private == IF ~IsNullish(importedResource.private)
                 THEN ParsePrivate(importedResource.private)
                 ELSE EmptyObj
  IN  IF IsNullish(importedResource.typeName)
      THEN Throw("Error", "Unable to read type name")
      ELSE IF Falsy(state) THEN Throw("Error", "Unable to read state")
      ELSE IF IsThrow(private) THEN private
      ELSE [typeName |-> importedResource.typeName, state |-> state, private |-> private]

importResourceState_Call(typeName, id) ==
  Rpc("ImportResourceState", [typeName |-> typeName, id |-> id])

importResourceState_Then(res) ==
  LET checked == throwDiagnosticErrors(res)
      mapped == [i \in DOMAIN res.fields.importedResources |->
                   ImportedResourceRecord(res.fields.importedResources[i])]
      thrown == {i \in DOMAIN mapped : IsThrow(mapped[i])}
  IN  IF IsThrow(checked) THEN Rejected(checked)
      ELSE IF thrown # {}
      THEN Rejected(mapped[CHOOSE i \in thrown : \A j \in thrown : i <= j])
      ELSE Resolved(mapped)

planResourceChange_Call(typeName, priorState, proposedNewState, options) ==
  LET resourceSchema == GetProp(facade.resourceStateSchemas, typeName)
  IN  IF resourceSchema = Undefined
      THEN Throw("TypeError", "Invalid resource type")
      ELSE Rpc("PlanResourceChange",
               [typeName |-> typeName,
                priorState |-> toDynamic(priorState),
                proposedNewState |-> toDynamic(proposedNewState),
                priorPrivate |-> EncodePrivate(options)])

planResourceChange_Then(res) ==
  LET checked == throwDiagnosticErrors(res)
      plannedState == fromDynamic(res.fields.plannedState)
      plannedPrivate == ParsePrivate(res.fields.plannedPrivate)
  IN  IF IsThrow(checked) THEN Rejected(checked)
      ELSE IF Falsy(plannedState)
      THEN Rejected(Throw("Error", "Unable to read planned state"))
      ELSE IF IsThrow(plannedPrivate) THEN Rejected(plannedPrivate)
      ELSE Resolved([plannedState |-> plannedState,
                     plannedPrivate |-> plannedPrivate,
                     requiresReplace |-> res.fields.requiresReplace])

\* readDataSource packing the config without optionalsToNulls.
readDataSource_Call_NoNulls(typeName, config) ==
  LET dataSourceSchema == GetProp(facade.dataSourceSchemas, typeName)
  IN  IF dataSourceSchema = Undefined
      THEN Throw("TypeError", "Invalid data source type")
      ELSE IF "kind" \notin DOMAIN dataSourceSchema
      THEN Throw("TypeError", "Cannot convert undefined or null to object")
      ELSE IF IsSome(validateOrThrow(dataSourceSchema, config))
      THEN Get(validateOrThrow(dataSourceSchema, config))
      ELSE Rpc("ReadDataSource", [typeName |-> typeName, config |-> toDynamic(config)])

readDataSource_Call(typeName, config) ==
  LET dataSourceSchema == GetProp(facade.dataSourceSchemas, typeName)
  IN  IF dataSourceSchema = Undefined
      THEN Throw("TypeError", "Invalid data source type")
      ELSE IF "kind" \notin DOMAIN dataSourceSchema
      THEN \* an inherited property is no object type: Object.keys(schema.properties) throws
           Throw("TypeError", "Cannot convert undefined or null to object")
      ELSE IF IsSome(validateOrThrow(dataSourceSchema, config))
      THEN Get(validateOrThrow(dataSourceSchema, config))
      ELSE Rpc("ReadDataSource",
               [typeName |-> typeName,
                config |-> toDynamic(optionalsToNulls(config, dataSourceSchema))])

readDataSource_Then(res) ==
  LET checked == throwDiagnosticErrors(res)
      state == fromDynamic(res.fields.state)
  IN  IF IsThrow(checked) THEN Rejected(checked)
      ELSE IF Falsy(state)
      THEN Rejected(Throw("Error", "Unable to read state from data source"))
      ELSE Resolved(state)

readResource_Call(typeName, currentState, options) ==
  LET resourceSchema == GetProp(facade.resourceStateSchemas, typeName)
  IN  IF resourceSchema = Undefined
      THEN Throw("TypeError", "Invalid resource type")
      ELSE Rpc("ReadResource",
               [typeName |-> typeName,
                currentState |-> toDynamic(currentState),
                private |-> EncodePrivate(options)])

\* readResource treating an absent state as the other operations do.
readResource_Then_Strict(res) ==
  LET checked == throwDiagnosticErrors(res)
      state == fromDynamic(res.fields.newState)
  IN  IF IsThrow(checked) THEN Rejected(checked)
      ELSE IF Falsy(state) THEN Rejected(Throw("Error", "Unable to read state"))
      ELSE Resolved(state)

readResource_Then(res) ==
  LET checked == throwDiagnosticErrors(res)
      state == fromDynamic(res.fields.newState)
  IN  IF IsThrow(checked) THEN Rejected(checked)
      ELSE Resolved(Coalesce(state, Undefined))

upgradeResourceState_Call(typeName, version, state) ==
  Rpc("UpgradeResourceState",
      [typeName |-> typeName, version |-> version, rawState |-> toRawState(state)])

upgradeResourceState_Then(res) ==
  LET checked == throwDiagnosticErrors(res)
      upgradedState == fromDynamic(res.fields.upgradedState)
  IN  IF IsThrow(checked) THEN Rejected(checked)
      ELSE IF Falsy(upgradedState)
      THEN Rejected(Throw("Error", "Unable to upgrade resource state"))
      ELSE Resolved(upgradedState)

validateDataSourceConfig_Call(typeName, config) ==
  Rpc("ValidateDataSourceConfig", [typeName |-> typeName, config |-> toDynamic(config)])

validateResourceTypeConfig_Call(typeName, config) ==
  Rpc("ValidateResourceTypeConfig", [typeName |-> typeName, config |-> toDynamic(config)])

\* return await this.#rpc.validate...(...): the raw response
validate_Then(res) == Resolved(res)

-----------------------------------------------------------------------------
(* Spec: one operation is invoked on the constructed facade; the provider  *)
(* answers each RPC the operation issues.                                  *)

Init ==
  /\ schema = FacadeSchema
  /\ facade = Constructor(FacadeSchema)
  /\ FacadeIdle
  /\ nullsIn = NoNulls
  /\ nullsOut = NoNulls

\* no operation has been invoked yet
Idle == pc = "idle"

\* The operation c is invoked; step is what it does before its first await.
Invoke(c, step) ==
  /\ call' = c
  /\ IF IsThrow(step)
     THEN /\ pc' = "settled"
          /\ outcome' = Rejected(step)
          /\ sent' = sent
     ELSE /\ pc' = "awaiting"
          /\ outcome' = outcome
          /\ sent' = Append(sent, step)
  /\ UNCHANGED <<schema, facade, received, nullsIn, nullsOut>>

\* the RPC the invoked operation awaits
Pending(op, method) ==
  /\ pc = "awaiting"
  /\ call.op = op
  /\ sent[Len(sent)].method = method

\* The awaited response arrives and the promise settles.
Settle(res, result) ==
  /\ received' = Append(received, res)
  /\ outcome' = result
  /\ pc' = "settled"
  /\ UNCHANGED <<schema, facade, call, sent, nullsIn, nullsOut>>

getSchema == Idle /\ Invoke([op |-> "getSchema"], getSchema_Call)

getSchemaReturns ==
  \E res \in GetSchemaResponses :
    Pending("getSchema", "GetSchema") /\ Settle(res, getSchema_Then(res))

applyResourceChange ==
  \E typeName \in TypeNames, priorState \in States, plannedState \in States,
     options \in PrivateOptions :
    Idle /\ Invoke([op |-> "applyResourceChange", typeName |-> typeName,
            priorState |-> priorState, plannedState |-> plannedState,
            options |-> options],
           applyResourceChange_Call(typeName, priorState, plannedState, options))

applyResourceChangeReturns ==
  \E res \in ApplyResponses :
    Pending("applyResourceChange", "ApplyResourceChange")
      /\ Settle(res, applyResourceChange_Then(res))

configure ==
  \E config \in Configs :
    Idle /\ Invoke([op |-> "configure", config |-> config], configure_Call(config))

configurePrepared ==
  \E res \in PrepareResponses :
    /\ Pending("configure", "PrepareProviderConfig")
    /\ received' = Append(received, res)
    /\ IF IsThrow(configure_Prepared(res))
       THEN /\ pc' = "settled"
            /\ outcome' = Rejected(configure_Prepared(res))
            /\ sent' = sent
       ELSE /\ pc' = "awaiting"
            /\ outcome' = outcome
            /\ sent' = Append(sent, configure_Prepared(res))
    /\ UNCHANGED <<schema, facade, call, nullsIn, nullsOut>>

configureReturns ==
  \E res \in ConfigureResponses :
    Pending("configure", "Configure") /\ Settle(res, configure_Then(res))

importResourceState ==
  \E typeName \in TypeNames :
    Idle /\ Invoke([op |-> "importResourceState", typeName |-> typeName, id |-> "id-1"],
           importResourceState_Call(typeName, "id-1"))

importResourceStateReturns ==
  \E res \in ImportResponses :
    Pending("importResourceState", "ImportResourceState")
      /\ Settle(res, importResourceState_Then(res))

planResourceChange ==
  \E typeName \in TypeNames, priorState \in States, proposedNewState \in States,
     options \in PrivateOptions :
    Idle /\ Invoke([op |-> "planResourceChange", typeName |-> typeName,
            priorState |-> priorState, proposedNewState |-> proposedNewState,
            options |-> options],
           planResourceChange_Call(typeName, priorState, proposedNewState, options))

planResourceChangeReturns ==
  \E res \in PlanResponses :
    Pending("planResourceChange", "PlanResourceChange")
      /\ Settle(res, planResourceChange_Then(res))

readDataSource ==
  \E typeName \in TypeNames, config \in Configs :
    Idle /\ Invoke([op |-> "readDataSource", typeName |-> typeName, config |-> config],
           readDataSource_Call(typeName, config))

readDataSourceReturns ==
  \E res \in ReadDataSourceResponses :
    Pending("readDataSource", "ReadDataSource") /\ Settle(res, readDataSource_Then(res))

readResource ==
  \E typeName \in TypeNames, currentState \in States, options \in PrivateOptions :
    Idle /\ Invoke([op |-> "readResource", typeName |-> typeName,
            currentState |-> currentState, options |-> options],
           readResource_Call(typeName, currentState, options))

readResourceReturns ==
  \E res \in ReadResourceResponses :
    Pending("readResource", "ReadResource") /\ Settle(res, readResource_Then(res))

upgradeResourceState ==
  \E typeName \in TypeNames, state \in RawStates :
    Idle /\ Invoke([op |-> "upgradeResourceState", typeName |-> typeName,
            version |-> 1, state |-> state],
           upgradeResourceState_Call(typeName, 1, state))

upgradeResourceStateReturns ==
  \E res \in UpgradeResponses :
    Pending("upgradeResourceState", "UpgradeResourceState")
      /\ Settle(res, upgradeResourceState_Then(res))

validateDataSourceConfig ==
  \E typeName \in TypeNames, config \in Configs :
    Idle /\ Invoke([op |-> "validateDataSourceConfig", typeName |-> typeName, config |-> config],
           validateDataSourceConfig_Call(typeName, config))

validateDataSourceConfigReturns ==
  \E res \in ValidateResponses :
    Pending("validateDataSourceConfig", "ValidateDataSourceConfig")
      /\ Settle(res, validate_Then(res))

validateResourceTypeConfig ==
  \E typeName \in TypeNames, config \in Configs :
    Idle /\ Invoke([op |-> "validateResourceTypeConfig", typeName |-> typeName, config |-> config],
           validateResourceTypeConfig_Call(typeName, config))

validateResourceTypeConfigReturns ==
  \E res \in ValidateResponses :
    Pending("validateResourceTypeConfig", "ValidateResourceTypeConfig")
      /\ Settle(res, validate_Then(res))

Next ==
  \/ getSchema \/ getSchemaReturns
  \/ applyResourceChange \/ applyResourceChangeReturns
  \/ configure \/ configurePrepared \/ configureReturns
  \/ importResourceState \/ importResourceStateReturns
  \/ planResourceChange \/ planResourceChangeReturns
  \/ readDataSource \/ readDataSourceReturns
  \/ readResource \/ readResourceReturns
  \/ upgradeResourceState \/ upgradeResourceStateReturns
  \/ validateDataSourceConfig \/ validateDataSourceConfigReturns
  \/ validateResourceTypeConfig \/ validateResourceTypeConfigReturns

Spec == Init /\ [][Next]_vars

-----------------------------------------------------------------------------
(* The claims about the facade, checked under Spec.                        *)

\* the RPC response the settled operation received, when it received one
Settled(op) == pc = "settled" /\ call.op = op /\ Len(received) = 1

DiagnosticOps ==
  {"getSchema", "configure", "readDataSource", "planResourceChange",
   "applyResourceChange", "readResource", "importResourceState",
   "upgradeResourceState"}

\* C1: in every operation but the two validate operations, a response
\* received with a non-empty diagnostics list makes the operation fail with
\* a DiagnosticError carrying that list, and the operation does not resolve;
\* in configure this holds of the PrepareProviderConfig response and of the
\* Configure response.
C1_DiagnosticsAlwaysThrown ==
  call.op \in DiagnosticOps =>
    \A i \in DOMAIN received :
      Len(received[i].diagnostics) > 0 =>
        /\ pc = "settled"
        /\ outcome.status = "rejected"
        /\ outcome.error.name = "DiagnosticError"
        /\ outcome.error.diagnostics = received[i].diagnostics

C1_Witness ==
  /\ call.op = "configure"
  /\ Len(received) = 2
  /\ received[1].diagnostics = <<>>
  /\ Len(received[2].diagnostics) > 0
  /\ outcome.status = "rejected"
  /\ outcome.error.name = "DiagnosticError"

\* the schema table an operation looks typeName up in
LookupTable(op) ==
  IF op = "readDataSource" THEN facade.dataSourceSchemas
  ELSE facade.resourceStateSchemas

IsInvalidType(error) ==
  /\ error.name = "TypeError"
  /\ error.message \in {"Invalid resource type", "Invalid data source type"}

\* C2 as claimed: readDataSource, planResourceChange and readResource, given
\* a typeName that is not a key of the schema table they look it up in, fail
\* with an InvalidType error and have issued no RPC.
C2_UnknownTypeRejectedBeforeRpc ==
  (/\ call.op \in {"readDataSource", "planResourceChange", "readResource"}
   /\ call.typeName \notin DOMAIN LookupTable(call.op))
    => /\ pc = "settled"
       /\ outcome.status = "rejected"
       /\ IsInvalidType(outcome.error)
       /\ sent = <<>>

\* a state field that carries a packed, present state
PresentState(field) ==
  /\ ~Falsy(field)
  /\ ~Falsy(field.msgpack)
  /\ MsgpackUnpack(field.msgpack).t = "object"

\* C3 as claimed: planResourceChange on a known resource type, answered
\* with no diagnostics, a present planned state and an empty or absent
\* plannedPrivate, resolves with plannedPrivate = {}; applyResourceChange
\* likewise with the response's private bytes.
C3_EmptyPrivateDecodesToEmptyMapping ==
  /\ (/\ Settled("planResourceChange")
      /\ call.typeName \in DOMAIN facade.resourceStateSchemas
      /\ received[1].diagnostics = <<>>
      /\ PresentState(received[1].fields.plannedState)
      /\ received[1].fields.plannedPrivate \in {Undefined, EmptyBytes})
       => /\ outcome.status = "resolved"
          /\ outcome.value.plannedPrivate = EmptyObj
  /\ (/\ Settled("applyResourceChange")
      /\ call.typeName \in DOMAIN facade.resourceStateSchemas
      /\ received[1].diagnostics = <<>>
      /\ PresentState(received[1].fields.newState)
      /\ received[1].fields.private \in {Undefined, EmptyBytes})
       => /\ outcome.status = "resolved"
          /\ outcome.value.private = EmptyObj

\* the state field of the response an operation decodes
ReturnedState(op, res) ==
  CASE op = "readDataSource" -> res.fields.state
    [] op = "planResourceChange" -> res.fields.plannedState
    [] op = "applyResourceChange" -> res.fields.newState
    [] op = "readResource" -> res.fields.newState
    [] op = "upgradeResourceState" -> res.fields.upgradedState

ReadErrorMessages ==
  {"Unable to read planned state", "Unable to read state from data source",
   "Unable to upgrade resource state"}

\* C4: readResource on a known resource type, answered with no diagnostics
\* and a newState that is null, undefined or a DynamicValue without packed
\* payload, resolves to undefined; readDataSource, planResourceChange,
\* applyResourceChange and upgradeResourceState fail with a read error when
\* the state they are answered with decodes to null or undefined.
C4_AbsentStateOnlyValidForReadResource ==
  /\ (/\ Settled("readResource")
      /\ call.typeName \in DOMAIN facade.resourceStateSchemas
      /\ received[1].diagnostics = <<>>
      /\ received[1].fields.newState \in {Undefined, Null, DynamicValue(Undefined)})
       => outcome = Resolved(Undefined)
  /\ (/\ pc = "settled"
      /\ Len(received) = 1
      /\ call.op \in {"readDataSource", "planResourceChange",
                      "applyResourceChange", "upgradeResourceState"}
      /\ received[1].diagnostics = <<>>
      /\ IsNullish(fromDynamic(ReturnedState(call.op, received[1]))))
       => /\ outcome.status = "rejected"
          /\ outcome.error.name = "Error"
          /\ outcome.error.message \in ReadErrorMessages

C4_Witness ==
  /\ Settled("readResource")
  /\ call.typeName = "widget"
  /\ received[1].diagnostics = <<>>
  /\ received[1].fields.newState = DynamicValue(Undefined)
  /\ outcome = Resolved(Undefined)

\* what a DynamicValue of a request carries
Payload(dynamicValue) == MsgpackUnpack(dynamicValue.msgpack)

\* the request carries a key for every declared property of the object type
\* and no other, each holding the configuration's value or null
NullNormalized(dynamicValue, config, objectType) ==
  /\ DOMAIN Payload(dynamicValue).o = DOMAIN objectType.properties
  /\ \A k \in DOMAIN objectType.properties :
       Payload(dynamicValue).o[k]
         = (IF k \in DOMAIN config.o /\ ~IsNullish(config.o[k]) THEN config.o[k] ELSE Null)

\* the request carries the value as the caller gave it
PassedAsGiven(dynamicValue, value) == Payload(dynamicValue) = value

StatesPassedAsGiven(rpc) ==
  /\ rpc.method = "PlanResourceChange" =>
       /\ PassedAsGiven(rpc.request.priorState, call.priorState)
       /\ PassedAsGiven(rpc.request.proposedNewState, call.proposedNewState)
  /\ rpc.method = "ApplyResourceChange" =>
       /\ PassedAsGiven(rpc.request.priorState, call.priorState)
       /\ PassedAsGiven(rpc.request.plannedState, call.plannedState)
  /\ rpc.method = "ReadResource" =>
       PassedAsGiven(rpc.request.currentState, call.currentState)

ConfigureAndReadDataSourceNormalize(rpc) ==
  /\ rpc.method = "PrepareProviderConfig" =>
       NullNormalized(rpc.request.config, call.config, facade.providerSchema)
  /\ rpc.method = "ReadDataSource" =>
       NullNormalized(rpc.request.config, call.config,
                      facade.dataSourceSchemas[call.typeName])

\* C7 as claimed: configure, readDataSource, validateDataSourceConfig and
\* validateResourceTypeConfig pass optionalsToNulls(config) to toDynamic, so
\* that the packed request carries a key for every declared property; the
\* state operations pass their states to toDynamic as given.
C7_EveryConfigNullNormalized ==
  \A i \in DOMAIN sent :
    /\ ConfigureAndReadDataSourceNormalize(sent[i])
    /\ (sent[i].method = "ValidateDataSourceConfig"
          /\ call.typeName \in DOMAIN facade.dataSourceSchemas) =>
         NullNormalized(sent[i].request.config, call.config,
                        facade.dataSourceSchemas[call.typeName])
    /\ (sent[i].method = "ValidateResourceTypeConfig"
          /\ call.typeName \in DOMAIN facade.resourceSchemas) =>
         NullNormalized(sent[i].request.config, call.config,
                        facade.resourceSchemas[call.typeName])
    /\ StatesPassedAsGiven(sent[i])

\* C7 as amended: configure and readDataSource pass optionalsToNulls(config)
\* to toDynamic, so that the packed request carries a key for every declared
\* property; validateDataSourceConfig and validateResourceTypeConfig pass the
\* configuration to toDynamic as given, with the caller's keys only; the
\* state operations pass their states to toDynamic as given.
C7_OnlyConfigureAndReadDataSourceNormalize ==
  \A i \in DOMAIN sent :
    /\ ConfigureAndReadDataSourceNormalize(sent[i])
    /\ sent[i].method \in {"ValidateDataSourceConfig", "ValidateResourceTypeConfig"} =>
         PassedAsGiven(sent[i].request.config, call.config)
    /\ StatesPassedAsGiven(sent[i])

C7_Witness ==
  /\ call.op = "readDataSource"
  /\ call.config = Obj([key |-> Str("k")])
  /\ Len(sent) = 1
  /\ Payload(sent[1].request.config) = Obj([key |-> Str("k"), filter |-> Null])

\* C10: configure validates, then calls PrepareProviderConfig, then calls
\* Configure.  PrepareProviderConfig is issued only for a config that
\* validates against the provider schema; Configure is issued at most once,
\* only after the PrepareProviderConfig response arrived without diagnostics
\* and with a preparedConfig, and carries exactly that preparedConfig; a
\* config that does not validate issues no RPC, and a preparation answered
\* with diagnostics or without preparedConfig fails the operation with
\* Configure never issued.
C10_ConfigureOrder ==
  call.op = "configure" =>
    /\ Len(sent) <= 2
    /\ Len(received) <= Len(sent)
    /\ Len(sent) >= 1 =>
         /\ sent[1].method = "PrepareProviderConfig"
         /\ Conforms(facade.providerSchema, call.config)
    /\ Len(sent) = 2 =>
         /\ sent[2].method = "Configure"
         /\ Len(received) >= 1
         /\ received[1].diagnostics = <<>>
         /\ ~IsNullish(received[1].fields.preparedConfig)
         /\ sent[2].request.config = received[1].fields.preparedConfig
    /\ ~Conforms(facade.providerSchema, call.config) =>
         /\ sent = <<>>
         /\ outcome.status = "rejected"
    /\ (/\ Len(received) >= 1
        /\ \/ received[1].diagnostics # <<>>
           \/ IsNullish(received[1].fields.preparedConfig)) =>
         /\ Len(sent) = 1
         /\ pc = "settled"
         /\ outcome.status = "rejected"

C10_Witness ==
  /\ call.op = "configure"
  /\ Len(sent) = 2
  /\ sent[2].method = "Configure"
  /\ Len(received) = 2
  /\ outcome.status = "resolved"


\* C11 as claimed: applyResourceChange, like planResourceChange, looks
\* typeName up in the resource state schema table, and given a typeName that
\* is not a key of that table it fails with an InvalidType error and has
\* issued no ApplyResourceChange RPC.
C11_ApplyRejectsUnknownTypeBeforeRpc ==
  (/\ call.op = "applyResourceChange"
   /\ call.typeName \notin DOMAIN facade.resourceStateSchemas)
    => /\ pc = "settled"
       /\ outcome.status = "rejected"
       /\ IsInvalidType(outcome.error)
       /\ \A i \in 1..Len(sent) : sent[i].method # "ApplyResourceChange"

=============================================================================
